---- MODULE Spec2Model ----
(***************************************************************************)
(* Model of arduino_maanagement.py: the serial framing, message dispatch,  *)
(* alert evaluation (specification Spec) and the link supervision of       *)
(* SerialManager (specification SpecLink).                                 *)
(*                                                                         *)
(* Text is a sequence of one-character strings, bytes are integers (the    *)
(* grave accent, which a TLA+ string cannot hold, is spelled "grave").      *)
(* Numbers read by float() are fixed-point integers, Scale units to one.   *)
(* An optional value (None or x) is <<>> or <<x>>.                         *)
(***************************************************************************)
EXTENDS Integers, Sequences, FiniteSets, TLC

VARIABLES
  \* ---- the byte stream and the reader's decoding state (read_loop)
  script,            \* every byte the far end of the transport delivers, in order
  consumed,          \* how many of them read() has returned
  buffer,            \* read_loop's local buffer (text)
  frames,            \* every message handed to process_message, in order
  readErrors,        \* how often the frame loop raised into read_loop's except
  chunked,           \* whether the stream was delivered in more than one read
  db_fault,          \* the frames (by number) whose INSERT INTO sensor_data raises
  error_log,         \* what logging.error has written while frames were processed
  cmd,               \* the command given to send_command (pending until written)
  \* ---- SerialManager / DatabaseManager state reached from process_message
  message_queue,     \* SerialManager.message_queue
  sensor_inventory,  \* SerialManager.sensor_inventory
  sensors,           \* table sensors: sensor_id -> row
  store,             \* every row inserted into sensor_data, alerts, events and
                     \* every upsert of sensors, in commit order
  alerts_config,     \* the [ALERTS] section after float()/getboolean()
  \* ---- link supervision
  now,               \* time.time()
  last_heartbeat,    \* SerialManager.last_heartbeat
  serial_conn,       \* SerialManager.serial_conn: 0 is None, else a handle
  open_handles,      \* the handles whose port is open
  next_handle,       \* the next handle serial.Serial() creates
  running,           \* SerialManager.running
  monitoring,        \* the [MONITORING] section
  reader,            \* the reader thread: pc and the locals of reconnect()
  main,              \* the main thread: pc of start()/stop()
  sender,            \* the monitor/CLI thread inside send_command
  link_log,          \* what the link did, for the supervision properties
  \* ---- the process: IoTManager, main()
  db_conn,           \* DatabaseManager.conn: "open" or "closed"
  manager            \* the main thread in main(), signal_handler and IoTManager.stop

pipeVars == <<script, consumed, buffer, frames, readErrors, chunked, db_fault, error_log, cmd,
              message_queue, sensor_inventory, sensors, store, alerts_config>>
linkVars == <<serial_conn, open_handles, next_handle, running, monitoring,
              reader, main, sender, link_log>>
linkVarsButReader == <<serial_conn, open_handles, next_handle, running, monitoring,
                       main, sender, link_log>>
timeVars == <<now, last_heartbeat>>
procVars == <<db_conn, manager>>
vars == <<pipeVars, linkVars, timeVars, procVars>>

-----------------------------------------------------------------------------
(* Text: str, bytes.decode(utf-8, errors=ignore), str.encode()          *)

Ascii ==
  << " ", "!", "\"", "#", "$", "%", "&", "'", "(", ")", "*", "+", ",", "-",
     ".", "/", "0", "1", "2", "3", "4", "5", "6", "7", "8", "9", ":", ";",
     "<", "=", ">", "?", "@", "A", "B", "C", "D", "E", "F", "G", "H", "I",
     "J", "K", "L", "M", "N", "O", "P", "Q", "R", "S", "T", "U", "V", "W",
     "X", "Y", "Z", "[", "\\", "]", "^", "_", "grave", "a", "b", "c", "d", "e",
     "f", "g", "h", "i", "j", "k", "l", "m", "n", "o", "p", "q", "r", "s",
     "t", "u", "v", "w", "x", "y", "z", "{", "|", "}", "~" >>

\* the character of a byte below 128 (10 is the line feed)
Chr(b) == IF b = 10 THEN "\n" ELSE Ascii[b - 31]

\* the byte of a character
Ord(c) == IF c = "\n" THEN 10 ELSE 31 + (CHOOSE i \in 1..Len(Ascii) : Ascii[i] = c)

\* data.decode(utf-8, errors=ignore): a byte that is no UTF-8 is dropped
Decode(bytes) ==
  LET valid == SelectSeq(bytes, LAMBDA b : b < 128)
  IN [i \in 1..Len(valid) |-> Chr(valid[i])]

\* message.encode()
Encode(text) == [i \in 1..Len(text) |-> Ord(text[i])]

\* c.lower() of one character
LowerChar(c) ==
  IF \E i \in 34..59 : Ascii[i] = c THEN Chr(Ord(c) + 32) ELSE c

\* s.lower()
Lower(s) == [i \in 1..Len(s) |-> LowerChar(s[i])]

\* c in s
HasChar(s, c) == \E i \in 1..Len(s) : s[i] = c

\* s.index(c, from), 1-based; 0 stands for ValueError
Index(s, c, from) ==
  IF \E i \in from..Len(s) : s[i] = c
  THEN CHOOSE i \in from..Len(s) : s[i] = c /\ \A j \in from..(i-1) : s[j] # c
  ELSE 0

\* needle in hay
Contains(hay, needle) ==
  \E i \in 0..(Len(hay) - Len(needle)) :
     \A j \in 1..Len(needle) : hay[i + j] = needle[j]

\* s.split(sep) for a one-character separator
RECURSIVE Split(_, _)
Split(s, sep) ==
  LET i == Index(s, sep, 1)
  IN IF i = 0 THEN <<s>>
     ELSE <<SubSeq(s, 1, i - 1)>> \o Split(SubSeq(s, i + 1, Len(s)), sep)

\* sep.join(parts)
RECURSIVE Join(_, _)
Join(parts, sep) ==
  IF Len(parts) = 0 THEN <<>>
  ELSE IF Len(parts) = 1 THEN parts[1]
  ELSE parts[1] \o <<sep>> \o Join(Tail(parts), sep)

\* s.strip() of blanks and line feeds, as float() and int() do
RECURSIVE Strip(_)
Strip(s) ==
  IF Len(s) > 0 /\ s[1] \in {" ", "\n"} THEN Strip(Tail(s))
  ELSE IF Len(s) > 0 /\ s[Len(s)] \in {" ", "\n"} THEN Strip(SubSeq(s, 1, Len(s) - 1))
  ELSE s

-----------------------------------------------------------------------------
(* Numbers: float(), int()                                                  *)

\* decimal places the fixed-point numbers keep
ScaleDigits == 4

RECURSIVE Pow10(_)
Pow10(n) == IF n = 0 THEN 1 ELSE 10 * Pow10(n - 1)

Scale == Pow10(ScaleDigits)

Digits == <<"0", "1", "2", "3", "4", "5", "6", "7", "8", "9">>

IsDigit(c) == \E d \in 1..10 : Digits[d] = c

AllDigits(s) == \A i \in 1..Len(s) : IsDigit(s[i])

RECURSIVE DigitsVal(_)
DigitsVal(ds) ==
  IF Len(ds) = 0 THEN 0
  ELSE 10 * DigitsVal(SubSeq(ds, 1, Len(ds) - 1))
       + (CHOOSE d \in 0..9 : Digits[d + 1] = ds[Len(ds)])

\* a literal without its sign
Unsigned(s) == IF Len(s) > 0 /\ s[1] \in {"+", "-"} THEN Tail(s) ELSE s

\* the digits before and after the point at position dot (0: no point)
DecimalParts(body, dot) ==
  IF dot = 0 THEN <<body, <<>>>>
  ELSE <<SubSeq(body, 1, dot - 1), SubSeq(body, dot + 1, Len(body))>>

\* digits past ScaleDigits are cut
Kept(fp) == IF Len(fp) > ScaleDigits THEN SubSeq(fp, 1, ScaleDigits) ELSE fp

\* the fixed-point number of integer digits ip and fraction digits fp
Magnitude(ip, fp) == DigitsVal(ip) * Scale + DigitsVal(fp) * Pow10(ScaleDigits - Len(fp))

\* the result of a conversion: ok is FALSE where Python raises ValueError
Signed(s, ok, mag) ==
  [ok  |-> ok,
   val |-> IF ~ok THEN 0 ELSE IF s[1] = "-" THEN 0 - mag ELSE mag]

FloatOfParts(s, p) ==
  Signed(s, AllDigits(p[1]) /\ AllDigits(p[2]) /\ Len(p[1]) + Len(p[2]) > 0,
         Magnitude(p[1], Kept(p[2])))

FloatOfStripped(s) == FloatOfParts(s, DecimalParts(Unsigned(s), Index(Unsigned(s), ".", 1)))

\* float(tok) for decimal literals [+-]digits[.digits].  (Exponents, inf,
\* nan and underscores are not part of the modelled inputs.)
ParseFloat(tok) == FloatOfStripped(Strip(tok))

IntOfStripped(s) ==
  Signed(s, AllDigits(Unsigned(s)) /\ Len(Unsigned(s)) > 0, DigitsVal(Unsigned(s)))

\* int(tok) for [+-]digits
ParseInt(tok) == IntOfStripped(Strip(tok))

\* ConfigManager.getboolean: configparser's boolean words, anything else (or a
\* missing key, given as <<>>) raises inside and yields the fallback False
getboolean(text) ==
  Lower(text) \in { <<"1">>, <<"y", "e", "s">>, <<"t", "r", "u", "e">>, <<"o", "n">> }

-----------------------------------------------------------------------------
(* DatabaseManager                                                          *)

\* the three substring tests of check_alerts, on sensor_id.lower()
IsTemperatureId(sensor_id) ==
  \/ Contains(Lower(sensor_id), <<"t", "e", "m", "p">>)
  \/ Contains(Lower(sensor_id), <<"d", "h", "t">>)
  \/ Contains(Lower(sensor_id), <<"b", "m", "p">>)

IsDistanceId(sensor_id) ==
  \/ Contains(Lower(sensor_id), <<"h", "c", "-", "s", "r", "0", "4">>)
  \/ Contains(Lower(sensor_id), <<"u", "l", "t", "r", "a", "s", "o", "n", "i", "c">>)

IsMotionId(sensor_id) == Contains(Lower(sensor_id), <<"p", "i", "r">>)

\* check_alerts, were the motion test the first of the chain
RuleOfMotionFirst(sensor_id) ==
  IF IsMotionId(sensor_id) THEN "motion"
  ELSE IF IsTemperatureId(sensor_id) THEN "temperature"
  ELSE IF IsDistanceId(sensor_id) THEN "distance"
  ELSE "none"

\* the if / elif / elif chain of check_alerts: which rule an id falls under
RuleOf(sensor_id) ==
  IF IsTemperatureId(sensor_id) THEN "temperature"
  ELSE IF IsDistanceId(sensor_id) THEN "distance"
  ELSE IF IsMotionId(sensor_id) THEN "motion"
  ELSE "none"

\* check_alerts, were the bounds themselves alerted
RangeAlertInclusive(value, lo, hi, lowType, highType) ==
  IF value <= lo THEN <<lowType, lo>>
  ELSE IF value >= hi THEN <<highType, hi>>
  ELSE <<>>

\* the two-sided test of the temperature and distance rules: <<>> or
\* <<alert_type, threshold>>
RangeAlert(value, lo, hi, lowType, highType) ==
  IF value < lo THEN <<lowType, lo>>
  ELSE IF value > hi THEN <<highType, hi>>
  ELSE <<>>

\* the test of the motion rule
MotionAlert(value, motion_threshold) ==
  IF value >= motion_threshold THEN <<"MOTION_DETECTED", motion_threshold>> ELSE <<>>

\* a two-sided rule on thresholds as getfloat returns them
RangeRule(value, lo, hi, lowType, highType) ==
  IF lo.ok /\ hi.ok THEN RangeAlert(value, lo.val, hi.val, lowType, highType) ELSE <<>>

\* the motion rule on its threshold as getfloat returns it
MotionRule(value, mt) == IF mt.ok THEN MotionAlert(value, mt.val) ELSE <<>>

\* the branch of check_alerts taken for a rule: <<>> or <<alert_type, threshold>>
HitOf(cfg, rule, value) ==
  IF rule = "temperature"
  THEN RangeRule(value, ParseFloat(cfg.temp_min), ParseFloat(cfg.temp_max),
                 "LOW_TEMPERATURE", "HIGH_TEMPERATURE")
  ELSE IF rule = "distance"
  THEN RangeRule(value, ParseFloat(cfg.distance_min), ParseFloat(cfg.distance_max),
                 "PROXIMITY_ALERT", "DISTANCE_EXCEEDED")
  ELSE IF rule = "motion" THEN MotionRule(value, ParseFloat(cfg.motion_threshold))
  ELSE <<>>

\* if alert_type: INSERT INTO alerts
AlertRows(sensor_id, value, hit) ==
  IF Len(hit) = 0 THEN <<>>
  ELSE << [tbl |-> "alerts", sensor_id |-> sensor_id, alert_type |-> hit[1],
           value |-> value, threshold |-> hit[2]] >>

\* check_alerts(sensor_id, value) under configuration cfg: the rows it
\* inserts into alerts (none or one).  A bound float() rejects raises, which
\* add_sensor_data catches: no row.  (The message column, a formatting of
\* the other columns, is left out.)
check_alerts(cfg, sensor_id, value) ==
  IF ~getboolean(cfg.enabled) THEN <<>>
  ELSE AlertRows(sensor_id, value, HitOf(cfg, RuleOf(sensor_id), value))

\* the padding of add_sensor_data, were the list not cut after three
PadOnly(xs) == [i \in 1..(IF Len(xs) > 3 THEN Len(xs) ELSE 3) |-> IF i <= Len(xs) THEN <<xs[i]>> ELSE <<>>]

\* (values + [None, None, None])[:3] with None as <<>> and x as <<x>>
Pad3(xs) == [i \in 1..3 |-> IF i <= Len(xs) THEN <<xs[i]>> ELSE <<>>]

\* rows of the store carry the number of the frame that caused them
Stamp(rows, frameNo) == [i \in 1..Len(rows) |-> [row |-> rows[i], frame |-> frameNo]]

\* logging.error(text) while frame frameNo is processed
LogError(st, frameNo, text) ==
  [st EXCEPT !.errors = Append(@, [frame |-> frameNo, text |-> text])]

\* add_sensor_data, were check_alerts still run after a failed insert
AfterFailedInsertEvaluates(st, cfg, frameNo, sensor_id, values) ==
  [LogError(st, frameNo, "Error adding sensor data: {e}") EXCEPT
     !.store = @ \o Stamp(check_alerts(cfg, sensor_id,
                                       IF Len(values) > 0 THEN values[1] ELSE 0), frameNo)]

\* the except clause of add_sensor_data: the INSERT has raised, nothing was
\* committed and check_alerts is not reached
AfterFailedInsert(st, cfg, frameNo, sensor_id, values) ==
  LogError(st, frameNo, "Error adding sensor data: {e}")

\* add_sensor_data, were check_alerts run before the insert
AlertsThenReading(reading, alerts) == alerts \o <<reading>>

\* the order of the writes of add_sensor_data: INSERT and commit, then what
\* check_alerts inserts
ReadingThenAlerts(reading, alerts) == <<reading>> \o alerts

\* add_sensor_data: the reading is inserted, last_seen of an existing sensors
\* row is updated, both are committed, then check_alerts runs on values[0],
\* or on 0 when the reading has no value.  An INSERT that raises ends in the
\* except clause.
add_sensor_data(st, cfg, t, frameNo, sensor_id, values, units, raw_data) ==
  IF frameNo \in st.faults
  THEN AfterFailedInsert(st, cfg, frameNo, sensor_id, values)
  ELSE
  LET v3      == Pad3(values)
      u3      == Pad3(units)
      reading == [tbl |-> "sensor_data", sensor_id |-> sensor_id,
                  values |-> v3, units |-> u3, raw_data |-> raw_data]
      touched == [id \in DOMAIN st.sensors |->
                    IF id = sensor_id
                    THEN [st.sensors[id] EXCEPT !.last_seen = t]
                    ELSE st.sensors[id]]
      primary == IF Len(v3[1]) > 0 THEN v3[1][1] ELSE 0
  IN [st EXCEPT !.sensors = touched,
                !.store = st.store \o Stamp(ReadingThenAlerts(reading, check_alerts(cfg, sensor_id, primary)), frameNo)]

\* add_sensor, were the statement INSERT OR IGNORE: a known id keeps its row
add_sensorKeepsFirst(st, t, frameNo, sensor_id, sensor_type, pin) ==
  [st EXCEPT
     !.sensors = [id \in DOMAIN st.sensors \cup {sensor_id} |->
                    IF id \in DOMAIN st.sensors THEN st.sensors[id]
                    ELSE [sensor_type |-> sensor_type, pin |-> pin, last_seen |-> t]],
     !.store = st.store \o Stamp(<< [tbl |-> "sensors", sensor_id |-> sensor_id,
                                     sensor_type |-> sensor_type, pin |-> pin] >>, frameNo)]

\* add_sensor: INSERT OR REPLACE of the sensors row
add_sensor(st, t, frameNo, sensor_id, sensor_type, pin) ==
  LET row == [sensor_type |-> sensor_type, pin |-> pin, last_seen |-> t]
  IN [st EXCEPT
        !.sensors = [id \in DOMAIN st.sensors \cup {sensor_id} |->
                       IF id = sensor_id THEN row ELSE st.sensors[id]],
        !.store = st.store \o Stamp(<< [tbl |-> "sensors", sensor_id |-> sensor_id,
                                        sensor_type |-> sensor_type, pin |-> pin] >>, frameNo)]

\* the events row of add_event: message is the text of the f-string with its
\* hole named, arg what fills the hole (<<>> when there is none)
EventRow(event_type, severity, message, arg, data) ==
  [tbl |-> "events", event_type |-> event_type, severity |-> severity,
   message |-> message, arg |-> arg, data |-> data]

\* add_event
add_event(st, frameNo, event_type, severity, message, arg, data) ==
  [st EXCEPT !.store = st.store \o Stamp(<<EventRow(event_type, severity, message, arg, data)>>, frameNo)]

-----------------------------------------------------------------------------
(* SerialManager: message dispatch                                          *)

\* deque(maxlen=100)
message_queue_maxlen == 100

\* deque.append: the oldest entry falls out of a full queue
QueueAppend(q, x) ==
  IF Len(q) >= message_queue_maxlen THEN Tail(q) \o <<x>> ELSE q \o <<x>>

\* the loop of process_data over parts[1:]: float() decides values or units
RECURSIVE Classify(_)
Classify(fields) ==
  IF Len(fields) = 0 THEN [values |-> <<>>, units |-> <<>>]
  ELSE LET rest == Classify(Tail(fields))
           f    == ParseFloat(fields[1])
       IN IF f.ok
          THEN [values |-> <<f.val>> \o rest.values, units |-> rest.units]
          ELSE [values |-> rest.values, units |-> <<fields[1]>> \o rest.units]

\* process_data(content)
process_data(st, cfg, t, frameNo, content) ==
  LET parts == Split(content, ",")
      c     == Classify(Tail(parts))
  IN IF Len(parts) < 2 THEN st
     ELSE add_sensor_data(st, cfg, t, frameNo, parts[1], c.values, c.units, content)

\* the for loop of process_inventory over the entries: an entry without ':'
\* is skipped, one that does not split into two raises (err) and ends the loop
\* with the earlier entries already stored
RECURSIVE InventoryLoop(_, _, _, _)
InventoryLoop(st, t, frameNo, entries) ==
  IF Len(entries) = 0 THEN [st |-> st, err |-> FALSE]
  ELSE LET e  == entries[1]
           kv == Split(e, ":")
       IN IF ~HasChar(e, ":") THEN InventoryLoop(st, t, frameNo, Tail(entries))
          ELSE IF Len(kv) # 2 THEN [st |-> st, err |-> TRUE]
          ELSE LET inv == [id \in DOMAIN st.sensor_inventory \cup {kv[1]} |->
                             IF id = kv[1] THEN kv[2] ELSE st.sensor_inventory[id]]
                   st1 == [st EXCEPT !.sensor_inventory = inv]
               IN InventoryLoop(add_sensor(st1, t, frameNo, kv[1], kv[2], 0),
                                t, frameNo, Tail(entries))

\* process_inventory(content)
process_inventory(st, t, frameNo, content) ==
  LET parts == Split(content, "|")
      count == ParseInt(parts[1])
  IN IF ~count.ok THEN LogError(st, frameNo, "Error processing inventory: {e}")
     ELSE LET r == IF Len(parts) > 1
                   THEN InventoryLoop(st, t, frameNo, Split(parts[2], ","))
                   ELSE [st |-> st, err |-> FALSE]
          IN IF r.err THEN LogError(r.st, frameNo, "Error processing inventory: {e}")
             ELSE add_event(r.st, frameNo, "INVENTORY", "INFO", "Updated: {count} sensors",
                            <<count.val>>, r.st.sensor_inventory)

\* process_heartbeat, were the whole content taken for the status
HeartbeatStatusWhole(content) == content

\* status = parts[0] of content.split('|'), which is never empty
HeartbeatStatus(content) == Split(content, "|")[1]

\* process_heartbeat(content)
process_heartbeat(st, t, frameNo, content) ==
  LET status == HeartbeatStatus(content)
      st1    == [st EXCEPT !.last_heartbeat = t]
  IN IF status # <<"O", "K">>
     THEN add_event(st1, frameNo, "HEARTBEAT", "WARNING", "Status: {status}", status, <<>>)
     ELSE st1

\* process_message, were the payload joined from the second field on
MessageOfFromTag(parts) ==
  [type |-> parts[1], timestamp |-> parts[2],
   content |-> Join(SubSeq(parts, 2, Len(parts)), "|")]

\* the three fields process_message splits a message into
MessageOf(parts) ==
  [type |-> parts[1], timestamp |-> parts[2],
   content |-> Join(SubSeq(parts, 3, Len(parts)), "|")]

\* process_message(message)
process_message(st, cfg, t, frameNo, message) ==
  LET parts == Split(message, "|")
      m     == MessageOf(parts)
      st1   == [st EXCEPT !.message_queue = QueueAppend(st.message_queue, m)]
  IN IF Len(parts) < 3 THEN st
     ELSE IF m.type = <<"D", "A", "T", "A">> THEN process_data(st1, cfg, t, frameNo, m.content)
     ELSE IF m.type = <<"I", "N", "V", "E", "N", "T", "O", "R", "Y">>
          THEN process_inventory(st1, t, frameNo, m.content)
     ELSE IF m.type = <<"H", "E", "A", "R", "T", "B", "E", "A", "T">>
          THEN process_heartbeat(st1, t, frameNo, m.content)
     ELSE IF m.type \in { <<"S", "T", "A", "T", "U", "S">>, <<"B", "O", "O", "T">> }
          THEN add_event(st1, frameNo, "ARDUINO", "INFO", "{content}", m.content, <<>>)
     ELSE st1

\* the frame loop, were the last '<' of the buffer taken
FrameStartLast(buf) ==
  CHOOSE i \in 1..Len(buf) : buf[i] = "<" /\ \A j \in (i + 1)..Len(buf) : buf[j] # "<"

\* start = buffer.index(<)
FrameStart(buf) == Index(buf, "<", 1)

\* the frame loop, were '>' searched from the start of the buffer
FrameEndAnywhere(buf, start) == Index(buf, ">", 1)

\* end = buffer.index(>, start)
FrameEnd(buf, start) == Index(buf, ">", start)

\* message = buffer[start+1:end]
MessageIn(buf, start, end) == SubSeq(buf, start + 1, end - 1)

\* the frame loop, were the buffer cut at '>' and not past it
BufferAfterKeepsClose(buf, end) == SubSeq(buf, end, Len(buf))

\* buffer = buffer[end+1:]
BufferAfter(buf, end) == SubSeq(buf, end + 1, Len(buf))

\* the frame loop of read_loop: while < in buffer and > in buffer.
\* Yields the buffer left, the messages processed and whether index() raised.
\* done are the messages processed so far, over all reads.
RECURSIVE FrameLoop(_, _, _, _, _)
FrameLoop(st, cfg, t, buf, done) ==
  IF HasChar(buf, "<") /\ HasChar(buf, ">")
  THEN LET start == FrameStart(buf)
           end   == FrameEnd(buf, start)
           message == MessageIn(buf, start, end)
       IN IF end = 0
          THEN [st |-> st, buffer |-> buf, frames |-> done, raised |-> TRUE]
          ELSE FrameLoop(process_message(st, cfg, t, Len(done) + 1, message), cfg, t,
                         BufferAfter(buf, end), Append(done, message))
  ELSE [st |-> st, buffer |-> buf, frames |-> done, raised |-> FALSE]

\* send_command: the text it writes
CommandText(command, args) ==
  <<"<">> \o command \o
  (IF Len(args) = 0 THEN <<>> ELSE <<"|">> \o Join(args, "|")) \o <<">">>

-----------------------------------------------------------------------------
(* Inputs of Spec                                                           *)

\* the longest byte stream taken from every combination of FramingBytes
MaxScriptLen == 5

\* the most arguments of a command
MaxArgs == 3

\* '<', '>', '|' and a letter
FramingBytes == {60, 62, 124, 97}

SeqsUpTo(S, n) == UNION { [1..k -> S] : k \in 0..n }

NoCmd == [command |-> <<>>, args |-> <<>>, pending |-> FALSE]

SensorIds ==
  { <<"D", "H", "T", "2", "2">>,
    <<"t", "e", "m", "p", "1">>,
    <<"B", "M", "P", "2", "8", "0">>,
    <<"H", "C", "-", "S", "R", "0", "4">>,
    <<"U", "L", "T", "R", "A", "S", "O", "N", "I", "C">>,
    <<"P", "I", "R", "1">>,
    <<"p", "i", "r", "-", "t", "e", "m", "p">>,
    <<"P", "I", "R", "-", "H", "C", "-", "S", "R", "0", "4">>,
    <<"L", "D", "R", "1">> }

ValueTokens ==
  { <<"-", "1", "0", ".", "0", "0", "0", "1">>,
    <<"-", "1", "0">>,
    <<"0">>,
    <<"0", ".", "9", "9", "9", "9">>,
    <<"1">>,
    <<"5">>,
    <<"5", "0">>,
    <<"5", "0", ".", "0", "0", "0", "1">>,
    <<"2", "0", "0", ".", "5">> }

\* the [ALERTS] section as create_default_config writes it
DefaultAlerts ==
  [enabled |-> <<"t", "r", "u", "e">>, temp_min |-> <<"-", "1", "0">>, temp_max |-> <<"5", "0">>,
   distance_min |-> <<"5">>, distance_max |-> <<"2", "0", "0">>, motion_threshold |-> <<"1">>]

AlertConfigs ==
  { DefaultAlerts,
    [DefaultAlerts EXCEPT !.enabled = <<"f", "a", "l", "s", "e">>],
    [DefaultAlerts EXCEPT !.temp_min = <<"0">>, !.temp_max = <<"1">>, !.distance_min = <<"5", "0">>,
                          !.distance_max = <<"5", "0">>, !.motion_threshold = <<"0", ".", "9", "9", "9", "9">>],
    [DefaultAlerts EXCEPT !.temp_min = <<"5", "0">>, !.temp_max = <<"-", "1", "0">>, !.distance_min = <<"2", "0", "0">>,
                          !.distance_max = <<"5">>, !.motion_threshold = <<"-", "1", "0">>] }

\* '<' type '|' tag '|' payload '>' as the device writes it
DeviceFrame(type, tag, payload) ==
  <<"<">> \o type \o <<"|">> \o tag \o <<"|">> \o payload \o <<">">>

DataFrame(sensor_id, fields) ==
  DeviceFrame(<<"D", "A", "T", "A">>, <<"t">>, Join(<<sensor_id>> \o fields, ","))

\* one reading with one field, for every id and token
OneValueScripts ==
  { Encode(DataFrame(id, <<v>>)) : id \in SensorIds, v \in ValueTokens }

\* streams of several frames, of the frames the device documentation names,
\* of malformed frames and of line noise (byte 255 is no UTF-8, 10 a line feed)
DeviceScripts ==
  { Encode(DataFrame(<<"D", "H", "T", "2", "2">>, << <<"2", "3", ".", "5">>, <<"4", "5", ".", "2">>, <<"C">>, <<"%">> >>)),
    Encode(DataFrame(<<"D", "H", "T", "2", "2">>, << <<"6", "0", ".", "0">>, <<"C">> >>)),
    Encode(DataFrame(<<"D", "H", "T", "2", "2">>, << <<"6", "0", ".", "0">>, <<"C">> >>)) \o <<10>> \o Encode(DataFrame(<<"D", "H", "T", "2", "2">>, << <<"6", "0", ".", "0">>, <<"C">> >>)),
    Encode(DataFrame(<<"H", "C", "-", "S", "R", "0", "4">>, << <<"3">> >>)) \o Encode(DataFrame(<<"D", "H", "T", "2", "2">>, << <<"2", "3", ".", "5">> >>)) \o Encode(DataFrame(<<"H", "C", "-", "S", "R", "0", "4">>, << <<"3">> >>)),
    Encode(DataFrame(<<"P", "I", "R", "1">>, << <<"1">> >>)) \o <<255, 62>> \o Encode(DataFrame(<<"P", "I", "R", "1">>, << <<"1">> >>)),
    Encode(DataFrame(<<"H", "C", "-", "S", "R", "0", "4">>, << <<"c", "m">> >>)),
    Encode(DataFrame(<<"D", "H", "T", "2", "2">>, << <<"C">>, <<"2", "3", ".", "5">>, <<"4", "5", ".", "2">>, <<"1">>, <<"5">> >>)),
    Encode(DataFrame(<<"D", "H", "T", "2", "2">>, <<>>)),
    Encode(DeviceFrame(<<"I", "N", "V", "E", "N", "T", "O", "R", "Y">>, <<"t">>, <<"2", "|", "D", "H", "T", "2", "2", ":", "d", "h", "t", ",", "P", "I", "R", "1", ":", "p", "i", "r">>)),
    Encode(DeviceFrame(<<"I", "N", "V", "E", "N", "T", "O", "R", "Y">>, <<"t">>, <<"2", "|", "A", ":", "b", ",", "C", ":", "d", ":", "e">>)),
    Encode(DeviceFrame(<<"H", "E", "A", "R", "T", "B", "E", "A", "T">>, <<"t">>, <<"O", "K", "|", "1", "2">>)),
    Encode(DeviceFrame(<<"H", "E", "A", "R", "T", "B", "E", "A", "T">>, <<"t">>, <<"E", "R", "R", "|", "1", "2">>)),
    Encode(DeviceFrame(<<"S", "T", "A", "T", "U", "S">>, <<"t">>, <<"u", "p">>)),
    Encode(DeviceFrame(<<"B", "O", "O", "T">>, <<"t">>, <<"v", "1">>)),
    Encode(DeviceFrame(<<"D", "E", "T", "E", "C", "T">>, <<"t">>, <<"2">>)),
    Encode(DeviceFrame(<<"X">>, <<"t">>, <<"y">>)),
    Encode(DeviceFrame(<<"d", "a", "t", "a">>, <<"t">>, <<"D", "H", "T", "2", "2", ",", "6", "0">>)),
    Encode(DataFrame(<<"L", "D", "R", "1">>, << <<"a">>, <<"b">>, <<"c">>, <<"d">> >>)),
    Encode(DeviceFrame(<<"I", "N", "V", "E", "N", "T", "O", "R", "Y">>, <<"t">>, <<"3", "|", "A", ":", "b", ",", "A", ":", "c">>))
      \o Encode(DeviceFrame(<<"I", "N", "V", "E", "N", "T", "O", "R", "Y">>, <<"t">>, <<"1", "|", "A", ":", "d">>)),
    Encode(DeviceFrame(<<"I", "N", "V", "E", "N", "T", "O", "R", "Y">>, <<"t">>, <<"x", "|", "A", ":", "b">>))
      \o Encode(DataFrame(<<"P", "I", "R", "1">>, << <<"1">> >>)),
    Encode(<<"<", "X", "|", "y", ">">>) \o Encode(DataFrame(<<"D", "H", "T", "2", "2">>, <<>>))
      \o Encode(DataFrame(<<"P", "I", "R", "1">>, << <<"1">> >>)),
    Encode(DeviceFrame(<<"H", "E", "A", "R", "T", "B", "E", "A", "T">>, <<"t">>, <<"O", "K", "|", "1", "2">>))
      \o Encode(DeviceFrame(<<"H", "E", "A", "R", "T", "B", "E", "A", "T">>, <<"t">>, <<"E", "R", "R", "|", "1", "2">>))
      \o Encode(DeviceFrame(<<"H", "E", "A", "R", "T", "B", "E", "A", "T">>, <<"t">>, <<>>)),
    Encode(DataFrame(<<"D", "H", "T", "2", "2">>, << <<"C">>, <<"2", "3", ".", "5">>, <<"6", "0", ".", "0">> >>)) }

CommandNames == { <<"S", "T", "A", "T", "U", "S">>, <<"C", "O", "N", "F", "I", "G">> }

ArgTexts == { <<>>, <<"a">>, <<"2", "0", "0">> }

Commands == { [command |-> n, args |-> a, pending |-> TRUE] : n \in CommandNames, a \in SeqsUpTo(ArgTexts, MaxArgs) }

\* the frames whose insert fails, where a stream is read with a failing store
FaultSets == { {1}, {2} }

\* what a behaviour of Spec starts from: a configuration with a stream the
\* device sends (read with a sound or a failing store), or a command that
\* is written to a looped-back transport

Cases ==
  { [cfg |-> c, script |-> sc, cmd |-> NoCmd, fault |-> {}] : c \in AlertConfigs, sc \in OneValueScripts }
  \cup { [cfg |-> DefaultAlerts, script |-> sc, cmd |-> NoCmd, fault |-> {}] :
           sc \in DeviceScripts \cup SeqsUpTo(FramingBytes, MaxScriptLen) }
  \cup { [cfg |-> DefaultAlerts, script |-> <<>>, cmd |-> k, fault |-> {}] : k \in Commands }
  \cup { [cfg |-> DefaultAlerts, script |-> sc, cmd |-> NoCmd, fault |-> f] :
           sc \in DeviceScripts, f \in FaultSets }

-----------------------------------------------------------------------------
(* Specification Spec: the reader's data path over an open link.  Bytes     *)
(* arrive in bursts of any size, a read takes all that wait.                *)

\* the state process_message works on, as one value
Store ==
  [store |-> store, sensors |-> sensors, sensor_inventory |-> sensor_inventory,
   message_queue |-> message_queue, last_heartbeat |-> last_heartbeat,
   errors |-> error_log, faults |-> db_fault]

\* the [MONITORING] section as create_default_config writes it
DefaultMonitoring ==
  [heartbeat_timeout |-> 30, auto_reconnect |-> TRUE, max_reconnect_attempts |-> 10]

ReaderAt(pc) == [pc |-> pc, attempt |-> 0, from |-> "none"]

SenderIdle == [pc |-> "idle", checked |-> 0, checked_open |-> FALSE, using |-> 0]

\* no time: the handle in serial_conn was not opened by reconnect()
NoTime == -1

EmptyLog ==
  [timeouts |-> 0, hb_reconnects |-> 0, rc_result |-> "none", rc_opens |-> 0,
   rc_reported |-> 0, rc_failed_events |-> 0, rc_handle |-> 0,
   reader_closed |-> {}, late_ops |-> FALSE, overlap |-> FALSE, stale |-> FALSE,
   sent |-> "none", start_events |-> <<>>, status_sent |-> "none",
   write_failed |-> "none", rc_time |-> NoTime]

EmptyFunction == [x \in {} |-> x]

\* the main thread at pc: caller is who runs IoTManager.stop ("handler" for
\* signal_handler, "finally" for main()), stops how many calls of it have
\* returned, raised what has raised in one, events the rows it has added to
\* system_events
ManagerAt(pc) ==
  [pc |-> pc, caller |-> "none", stops |-> 0, raised |-> "none", events |-> <<>>]

\* the process after IoTManager.__init__ and init_database
ProcStart(pc) == db_conn = "open" /\ manager = ManagerAt(pc)

PipeStart ==
  /\ consumed = 0 /\ buffer = <<>> /\ frames = <<>> /\ readErrors = 0
  /\ chunked = FALSE /\ error_log = <<>>
  /\ message_queue = <<>> /\ sensor_inventory = EmptyFunction /\ sensors = EmptyFunction
  /\ store = <<>>

Init ==
  /\ \E c \in Cases : alerts_config = c.cfg /\ script = c.script /\ cmd = c.cmd
                      /\ db_fault = c.fault
  /\ PipeStart
  /\ now = 1 /\ last_heartbeat = 0
  /\ serial_conn = 1 /\ open_handles = {1} /\ next_handle = 2 /\ running = TRUE
  /\ monitoring = DefaultMonitoring
  /\ reader = ReaderAt("poll") /\ main = "started" /\ sender = SenderIdle
  /\ link_log = EmptyLog
  /\ ProcStart("try")

\* send_command(command, *args) on a transport that is looped back: the bytes
\* written are the bytes the reader will receive
send_command ==
  /\ cmd.pending
  /\ serial_conn # 0
  /\ script' = script \o Encode(CommandText(cmd.command, cmd.args))
  /\ cmd' = [cmd EXCEPT !.pending = FALSE]
  /\ UNCHANGED <<consumed, buffer, frames, readErrors, chunked, db_fault, error_log, message_queue,
                 sensor_inventory, sensors, store, alerts_config, linkVars, timeVars,
                 procVars>>

\* read_loop, lines 434-444: in_waiting is not zero, all waiting bytes are
\* read and decoded, and the frame loop processes every complete message
read_available ==
  /\ serial_conn \in open_handles
  /\ \E in_waiting \in 1..(Len(script) - consumed) :
     \E r \in { FrameLoop(Store, alerts_config, now,
                           buffer \o Decode(SubSeq(script, consumed + 1, consumed + in_waiting)),
                           frames) } :
        /\ buffer' = r.buffer
        /\ frames' = r.frames
        /\ readErrors' = readErrors + (IF r.raised THEN 1 ELSE 0)
        /\ store' = r.st.store
        /\ sensors' = r.st.sensors
        /\ sensor_inventory' = r.st.sensor_inventory
        /\ message_queue' = r.st.message_queue
        /\ last_heartbeat' = r.st.last_heartbeat
        /\ error_log' = r.st.errors
        /\ consumed' = consumed + in_waiting
  /\ chunked' = (consumed > 0)
  /\ UNCHANGED <<script, cmd, db_fault, alerts_config, linkVars, now, procVars>>

Next == send_command \/ read_available

Spec == Init /\ [][Next]_vars

-----------------------------------------------------------------------------
(* Specification SpecLink: the reader thread (read_loop, reconnect), the    *)
(* main thread (start, stop) and a thread inside send_command, interleaved  *)
(* statement by statement.  What the reader receives is abstracted to its   *)
(* effect on the link: a heartbeat, another message, nothing, or an error.  *)
(* Time is counted in sleeps of the reader: every sleep takes one tick.      *)

\* the clock stops here
MaxTime == 5

\* the largest max_reconnect_attempts and heartbeat_timeout configured
MaxAttempts == 2
MaxTimeout == 2

MonitoringConfigs ==
  [heartbeat_timeout : 1..MaxTimeout, auto_reconnect : BOOLEAN,
   max_reconnect_attempts : 0..MaxAttempts]

InitLink ==
  /\ monitoring \in MonitoringConfigs
  /\ now = 0 /\ last_heartbeat = 0
  /\ serial_conn = 0 /\ open_handles = {} /\ next_handle = 1 /\ running = FALSE
  /\ reader = ReaderAt("off") /\ main = "start" /\ sender = SenderIdle
  /\ link_log = EmptyLog
  /\ alerts_config = DefaultAlerts /\ script = <<>> /\ cmd = NoCmd /\ db_fault = {}
  /\ PipeStart
  /\ ProcStart("start")

\* the reader begins an iteration of its loop: a write of send_command that
\* raised before is from now on one the reader had a whole iteration to see
IterationBegun(log) ==
  [log EXCEPT !.write_failed = IF @ = "raised" THEN "polled" ELSE @]

\* the reader touches the transport (in_waiting, read, close, open): noted
\* when stop() has returned and when a write of send_command is under way
ReaderOp(log) ==
  [log EXCEPT !.late_ops = @ \/ main = "stopped",
              !.overlap = @ \/ sender.pc = "writing"]

\* connect(), were the handle assigned before the port is opened
connectKeepsFailedHandle(ok) ==
  /\ serial_conn' = next_handle
  /\ open_handles' = IF ok THEN open_handles \cup {next_handle} ELSE open_handles
  /\ next_handle' = next_handle + 1

\* the event connect() records
ConnectEvent(ok) ==
  IF ok THEN EventRow("SERIAL", "INFO", "Connected to {port}", <<>>, <<>>)
  ELSE EventRow("SERIAL", "ERROR", "Connection failed: {e}", <<>>, <<>>)

\* connect(): serial.Serial() opens a new handle (ok) or raises, leaving
\* serial_conn as it is
connect(ok) ==
  IF ok
  THEN /\ serial_conn' = next_handle
       /\ open_handles' = open_handles \cup {next_handle}
       /\ next_handle' = next_handle + 1
  ELSE UNCHANGED <<serial_conn, open_handles, next_handle>>

\* ---- main thread

\* start(), lines 415-417
start_connect ==
  /\ main = "start"
  /\ \E ok \in BOOLEAN :
       /\ connect(ok)
       /\ main' = IF ok THEN "start_thread" ELSE "failed"
       /\ link_log' = [link_log EXCEPT !.start_events = Append(@, ConnectEvent(ok))]
  /\ UNCHANGED <<procVars, pipeVars, timeVars, running, monitoring, reader, sender>>

\* start(), lines 419-421
start_thread ==
  /\ main = "start_thread"
  /\ running' = TRUE
  /\ reader' = ReaderAt("while")
  /\ main' = "start_status"
  /\ UNCHANGED <<procVars, pipeVars, timeVars, serial_conn, open_handles, next_handle,
                 monitoring, sender, link_log>>

\* start(), lines 424-427: send_command("STATUS") and what it returns
start_status ==
  /\ main = "start_status"
  /\ main' = "started"
  /\ link_log' = [link_log EXCEPT
                    !.status_sent = IF serial_conn # 0 /\ serial_conn \in open_handles
                                    THEN "true" ELSE "false"]
  /\ UNCHANGED <<procVars, pipeVars, timeVars, serial_conn, open_handles, next_handle,
                 running, monitoring, reader, sender>>

\* stop(), line 596: stop() is called when start() has returned, or by
\* IoTManager.stop (main is "stop")
stop_flag ==
  /\ main \in {"started", "stop"}
  /\ running' = FALSE
  /\ main' = "stop_join"
  /\ UNCHANGED <<procVars, pipeVars, timeVars, serial_conn, open_handles, next_handle,
                 monitoring, reader, sender, link_log>>

\* where the reader stays for two seconds or more: the sleeps of reconnect()
\* and the opening of the port
InLongWait == reader.pc \in {"rc_sleep", "rc_connect", "rc_backoff"}

\* stop(), lines 597-598: join(timeout=2) returns when the reader has ended,
\* or after two seconds
stop_join ==
  /\ main = "stop_join"
  /\ reader.pc = "done" \/ InLongWait
  /\ main' = "stop_check"
  /\ UNCHANGED <<procVars, pipeVars, timeVars, serial_conn, open_handles, next_handle,
                 running, monitoring, reader, sender, link_log>>

\* stop(), line 599
stop_check ==
  /\ main = "stop_check"
  /\ main' = IF serial_conn # 0 THEN "stop_close" ELSE "stopped"
  /\ UNCHANGED <<procVars, pipeVars, timeVars, serial_conn, open_handles, next_handle,
                 running, monitoring, reader, sender, link_log>>

\* stop(), line 600: self.serial_conn is read again; None has no close()
stop_close ==
  /\ main = "stop_close"
  /\ IF serial_conn = 0
     THEN main' = "stop_raised" /\ UNCHANGED open_handles
     ELSE main' = "stopped" /\ open_handles' = open_handles \ {serial_conn}
  /\ UNCHANGED <<procVars, pipeVars, timeVars, serial_conn, next_handle, running,
                 monitoring, reader, sender, link_log>>

\* ---- reader thread

\* read_loop, line 432
read_loop_while ==
  /\ reader.pc = "while"
  /\ reader' = [reader EXCEPT !.pc = IF running THEN "poll" ELSE "done"]
  /\ UNCHANGED <<procVars, pipeVars, timeVars, serial_conn, open_handles, next_handle,
                 running, monitoring, main, sender, link_log>>

\* process_heartbeat as the link sees it
HeartbeatAccepted(log) == [log EXCEPT !.timeouts = 0, !.hb_reconnects = 0]

\* read_loop, lines 434-444: no handle, a closed handle (in_waiting raises),
\* or an open one with nothing waiting, a heartbeat, another message, or an
\* error of the transport or of the frame loop
read_loop_poll ==
  /\ reader.pc = "poll"
  /\ IF serial_conn = 0
     THEN /\ reader' = [reader EXCEPT !.pc = "heartbeat"]
          /\ link_log' = IterationBegun(link_log)
          /\ UNCHANGED last_heartbeat
     ELSE IF serial_conn \notin open_handles
     THEN /\ reader' = [reader EXCEPT !.pc = "except"]
          /\ link_log' = IterationBegun(ReaderOp(link_log))
          /\ UNCHANGED last_heartbeat
     ELSE \E input \in {"nothing", "heartbeat", "message", "error"} :
          /\ reader' = [reader EXCEPT !.pc = IF input = "error" THEN "except" ELSE "heartbeat"]
          /\ last_heartbeat' = IF input = "heartbeat" THEN now ELSE last_heartbeat
          /\ link_log' = IF input = "heartbeat"
                         THEN HeartbeatAccepted(IterationBegun(ReaderOp(link_log)))
                         ELSE IterationBegun(ReaderOp(link_log))
  /\ UNCHANGED <<procVars, pipeVars, now, serial_conn, open_handles, next_handle,
                 running, monitoring, main, sender>>

\* the call of reconnect() from the place `from`
CallReconnect(from) ==
  /\ reader' = [pc |-> "rc_for", attempt |-> 0, from |-> from]

\* reconnect() has been entered: what is noted about the call
ReconnectEntered(log) ==
  [log EXCEPT !.rc_result = "running", !.rc_opens = 0, !.rc_reported = 0,
              !.rc_failed_events = 0, !.rc_handle = 0, !.write_failed = "none"]

\* the elapsed time is past the configured heartbeat_timeout
HeartbeatTimedOut == now - last_heartbeat > monitoring.heartbeat_timeout

\* read_loop, lines 447-452
read_loop_heartbeat ==
  /\ reader.pc = "heartbeat"
  /\ IF HeartbeatTimedOut
     THEN IF monitoring.auto_reconnect
          THEN /\ CallReconnect("heartbeat")
               /\ link_log' = [ReconnectEntered(link_log) EXCEPT
                                 !.timeouts = @ + 1, !.hb_reconnects = @ + 1]
          ELSE /\ reader' = [reader EXCEPT !.pc = "sleep"]
               /\ link_log' = [link_log EXCEPT !.timeouts = @ + 1]
     ELSE /\ reader' = [reader EXCEPT !.pc = "sleep"]
          /\ UNCHANGED link_log
  /\ UNCHANGED <<procVars, pipeVars, timeVars, serial_conn, open_handles, next_handle,
                 running, monitoring, main, sender>>

\* read_loop, line 454
read_loop_sleep ==
  /\ reader.pc = "sleep"
  /\ now < MaxTime
  /\ now' = now + 1
  /\ reader' = [reader EXCEPT !.pc = "while"]
  /\ UNCHANGED <<procVars, pipeVars, last_heartbeat, linkVarsButReader>>

\* read_loop, lines 456-459
read_loop_except ==
  /\ reader.pc = "except"
  /\ IF monitoring.auto_reconnect
     THEN /\ CallReconnect("except")
          /\ link_log' = ReconnectEntered(link_log)
     ELSE /\ reader' = [reader EXCEPT !.pc = "except_sleep"]
          /\ UNCHANGED link_log
  /\ UNCHANGED <<procVars, pipeVars, timeVars, serial_conn, open_handles, next_handle,
                 running, monitoring, main, sender>>

\* read_loop, line 460
read_loop_except_sleep ==
  /\ reader.pc = "except_sleep"
  /\ now < MaxTime
  /\ now' = now + 1
  /\ reader' = [reader EXCEPT !.pc = "while"]
  /\ UNCHANGED <<procVars, pipeVars, last_heartbeat, linkVarsButReader>>

\* where reconnect() returns to
AfterReconnect == IF reader.from = "heartbeat" THEN "sleep" ELSE "except_sleep"

\* reconnect(), line 577, and lines 591-593 when the attempts are used up
reconnect_for ==
  /\ reader.pc = "rc_for"
  /\ IF reader.attempt < monitoring.max_reconnect_attempts
     THEN /\ reader' = [reader EXCEPT !.pc = "rc_close"]
          /\ UNCHANGED link_log
     ELSE /\ reader' = [reader EXCEPT !.pc = AfterReconnect]
          /\ link_log' = [link_log EXCEPT !.rc_result = "failed",
                                          !.rc_failed_events = @ + 1]
  /\ UNCHANGED <<procVars, pipeVars, timeVars, serial_conn, open_handles, next_handle,
                 running, monitoring, main, sender>>

\* reconnect(), lines 578-579
reconnect_close ==
  /\ reader.pc = "rc_close"
  /\ IF serial_conn # 0
     THEN /\ open_handles' = open_handles \ {serial_conn}
          /\ link_log' = [ReaderOp(link_log) EXCEPT !.reader_closed = @ \cup {serial_conn},
                                                    !.rc_time = NoTime]
          /\ reader' = [reader EXCEPT !.pc = "rc_none"]
     ELSE /\ reader' = [reader EXCEPT !.pc = "rc_sleep"]
          /\ UNCHANGED <<open_handles, link_log>>
  /\ UNCHANGED <<procVars, pipeVars, timeVars, serial_conn, next_handle, running,
                 monitoring, main, sender>>

\* reconnect(), line 580
reconnect_none ==
  /\ reader.pc = "rc_none"
  /\ serial_conn' = 0
  /\ reader' = [reader EXCEPT !.pc = "rc_sleep"]
  /\ UNCHANGED <<procVars, pipeVars, timeVars, open_handles, next_handle, running,
                 monitoring, main, sender, link_log>>

\* reconnect(), line 582
reconnect_sleep ==
  /\ reader.pc = "rc_sleep"
  /\ now < MaxTime
  /\ now' = now + 1
  /\ reader' = [reader EXCEPT !.pc = "rc_connect"]
  /\ UNCHANGED <<procVars, pipeVars, last_heartbeat, linkVarsButReader>>

\* reconnect(), lines 584-587
reconnect_connect ==
  /\ reader.pc = "rc_connect"
  /\ \E ok \in BOOLEAN :
       /\ connect(ok)
       /\ IF ok
          THEN /\ reader' = [reader EXCEPT !.pc = AfterReconnect]
               /\ link_log' = [ReaderOp(link_log) EXCEPT
                                 !.rc_opens = @ + 1, !.rc_result = "ok",
                                 !.rc_reported = reader.attempt + 1,
                                 !.rc_handle = next_handle, !.rc_time = now]
          ELSE /\ reader' = [reader EXCEPT !.pc = "rc_backoff"]
               /\ link_log' = [ReaderOp(link_log) EXCEPT !.rc_opens = @ + 1]
  /\ UNCHANGED <<procVars, pipeVars, timeVars, running, monitoring, main, sender>>

\* reconnect(), line 589, and the next turn of the for loop
reconnect_backoff ==
  /\ reader.pc = "rc_backoff"
  /\ now < MaxTime
  /\ now' = now + 1
  /\ reader' = [reader EXCEPT !.pc = "rc_for", !.attempt = @ + 1]
  /\ UNCHANGED <<procVars, pipeVars, last_heartbeat, linkVarsButReader>>

\* ---- a thread in send_command (monitor_loop, the CLI)

\* send_command, lines 556-557
send_command_check ==
  /\ sender.pc = "idle"
  /\ main = "started"
  /\ IF serial_conn = 0
     THEN /\ link_log' = [link_log EXCEPT !.sent = "false"]
          /\ UNCHANGED sender
     ELSE /\ sender' = [pc |-> "write", checked |-> serial_conn,
                        checked_open |-> serial_conn \in open_handles, using |-> 0]
          /\ UNCHANGED link_log
  /\ UNCHANGED <<procVars, pipeVars, timeVars, serial_conn, open_handles, next_handle,
                 running, monitoring, reader, main>>

\* the handle send_command is about to write to is not the one it checked:
\* the reader has closed it or put another (or None) in its place
HandleStale ==
  \/ serial_conn # sender.checked
  \/ sender.checked_open /\ sender.checked \in link_log.reader_closed

\* send_command, line 565: self.serial_conn is read again and write() begins;
\* None and a closed port raise, which send_command catches
send_command_write ==
  /\ sender.pc = "write"
  /\ IF serial_conn = 0 \/ serial_conn \notin open_handles
     THEN /\ sender' = SenderIdle
          /\ link_log' = [link_log EXCEPT !.sent = "false", !.stale = @ \/ HandleStale]
     ELSE /\ sender' = [sender EXCEPT !.pc = "writing", !.using = serial_conn]
          /\ link_log' = [link_log EXCEPT !.stale = @ \/ HandleStale]
  /\ UNCHANGED <<procVars, pipeVars, timeVars, serial_conn, open_handles, next_handle,
                 running, monitoring, reader, main>>

\* send_command, were the return value True whatever write() did
WriteResultAlwaysTrue(handle) == "true"

\* what send_command returns after write(): True, or False from the except
\* clause when write() raised
WriteResult(handle) == IF handle \in open_handles THEN "true" ELSE "false"

\* send_command, lines 565-571: write() returns, or raises when the port was
\* closed under it or when the transport fails (raised); the except clause
\* logs the error and returns False
send_command_return ==
  /\ sender.pc = "writing"
  /\ sender' = SenderIdle
  /\ \E raised \in BOOLEAN :
       link_log' = [link_log EXCEPT
                      !.sent = IF raised THEN "false" ELSE WriteResult(sender.using),
                      !.write_failed = IF raised /\ sender.using \in open_handles
                                       THEN "raised" ELSE @]
  /\ UNCHANGED <<procVars, pipeVars, timeVars, serial_conn, open_handles, next_handle,
                 running, monitoring, reader, main>>

NextLink ==
  \/ start_connect \/ start_thread \/ start_status
  \/ stop_flag \/ stop_join \/ stop_check \/ stop_close
  \/ read_loop_while \/ read_loop_poll \/ read_loop_heartbeat \/ read_loop_sleep
  \/ read_loop_except \/ read_loop_except_sleep
  \/ reconnect_for \/ reconnect_close \/ reconnect_none \/ reconnect_sleep
  \/ reconnect_connect \/ reconnect_backoff
  \/ send_command_check \/ send_command_write \/ send_command_return

SpecLink == InitLink /\ [][NextLink]_vars

-----------------------------------------------------------------------------
(* Specification SpecRetry: the reader thread alone, after start() has      *)
(* returned True and for as long as nobody calls stop(), over unbounded     *)
(* time.  The clock, the handle numbers and the counts of the log are kept  *)
(* in a window: when one of them reaches its end, Rebase renames them,      *)
(* which changes no comparison the code makes.  The reader thread is        *)
(* scheduled again and again (weak fairness).                               *)

\* the largest handle number and the largest count kept in the window
MaxHandle == 3
MaxLogged == 2

InitRetry ==
  /\ monitoring \in MonitoringConfigs
  /\ now = 0 /\ last_heartbeat = 0
  /\ serial_conn = 1 /\ open_handles = {1} /\ next_handle = 2 /\ running = TRUE
  /\ reader = ReaderAt("while") /\ main = "started" /\ sender = SenderIdle
  /\ link_log = [EmptyLog EXCEPT !.start_events = <<ConnectEvent(TRUE)>>,
                                 !.status_sent = "true"]
  /\ alerts_config = DefaultAlerts /\ script = <<>> /\ cmd = NoCmd /\ db_fault = {}
  /\ PipeStart
  /\ ProcStart("try")

\* the clock, the handle numbers and the counts are inside the window
InWindow ==
  /\ now < MaxTime
  /\ next_handle <= MaxHandle
  /\ link_log.timeouts < MaxLogged
  /\ link_log.hb_reconnects < MaxLogged

\* the time since t, as far as a comparison with heartbeat_timeout can tell
Elapsed(t) == IF now - t > MaxTimeout THEN MaxTimeout + 1 ELSE now - t

\* a count, as far as it is told from zero
Logged(n) == IF n >= MaxLogged THEN MaxLogged - 1 ELSE n

\* the window is moved: time.time() is MaxTimeout + 1 of the new clock, the
\* handle serial_conn holds is handle 1, and every difference of two times
\* that the code compares with heartbeat_timeout is as before
Rebase ==
  /\ ~InWindow
  /\ now' = MaxTimeout + 1
  /\ last_heartbeat' = MaxTimeout + 1 - Elapsed(last_heartbeat)
  /\ serial_conn' = IF serial_conn = 0 THEN 0 ELSE 1
  /\ open_handles' = IF serial_conn \in open_handles THEN {1} ELSE {}
  /\ next_handle' = 2
  /\ link_log' = [link_log EXCEPT
                    !.timeouts = Logged(@), !.hb_reconnects = Logged(@),
                    !.reader_closed = {},
                    !.rc_handle = IF @ # 0 /\ @ = serial_conn THEN 1 ELSE 0,
                    !.rc_time = IF @ = NoTime THEN NoTime ELSE MaxTimeout + 1 - Elapsed(@)]
  /\ UNCHANGED <<procVars, pipeVars, running, monitoring, reader, main, sender>>

\* a step of the reader thread inside the window, or the move of the window
NextRetry ==
  \/ Rebase
  \/ InWindow /\ read_loop_while
  \/ InWindow /\ read_loop_poll
  \/ InWindow /\ read_loop_heartbeat
  \/ InWindow /\ read_loop_sleep
  \/ InWindow /\ read_loop_except
  \/ InWindow /\ read_loop_except_sleep
  \/ InWindow /\ reconnect_for
  \/ InWindow /\ reconnect_close
  \/ InWindow /\ reconnect_none
  \/ InWindow /\ reconnect_sleep
  \/ InWindow /\ reconnect_connect
  \/ InWindow /\ reconnect_backoff

SpecRetry == InitRetry /\ [][NextRetry]_vars /\ WF_vars(NextRetry)

-----------------------------------------------------------------------------
(* Specification SpecShutdown: the process from the return of               *)
(* IoTManager.start() to its end. The main thread is in main(); a signal    *)
(* runs signal_handler in it; the reader thread runs beside it.             *)

\* main() after manager.start() has returned True, line 911
InitShutdown ==
  /\ monitoring \in MonitoringConfigs
  /\ now = 0 /\ last_heartbeat = 0
  /\ serial_conn = 1 /\ open_handles = {1} /\ next_handle = 2 /\ running = TRUE
  /\ reader = ReaderAt("while") /\ main = "started" /\ sender = SenderIdle
  /\ link_log = [EmptyLog EXCEPT !.start_events = <<ConnectEvent(TRUE)>>,
                                 !.status_sent = "true"]
  /\ alerts_config = DefaultAlerts /\ script = <<>> /\ cmd = NoCmd /\ db_fault = {}
  /\ PipeStart
  /\ ProcStart("configure")

\* main(), lines 911-915: configure_arduino() has returned, the try block is
\* entered
main_try ==
  /\ manager.pc = "configure"
  /\ manager' = [manager EXCEPT !.pc = "try"]
  /\ UNCHANGED <<db_conn, pipeVars, linkVars, timeVars>>

\* signal_handler, lines 628-630: SIGINT or SIGTERM reaches the main thread,
\* before the try block of main() or inside it; stop() is called
signal_handler ==
  /\ manager.pc \in {"configure", "try"}
  /\ manager' = [manager EXCEPT !.pc = "stop",
                                !.caller = IF manager.pc = "try" THEN "handler_in_try"
                                           ELSE "handler"]
  /\ UNCHANGED <<db_conn, pipeVars, linkVars, timeVars>>

\* main(), lines 916-926: the daemon loop or run_cli() is left ("quit", or
\* KeyboardInterrupt); the finally block calls stop()
main_finally ==
  /\ manager.pc = "try"
  /\ manager' = [manager EXCEPT !.pc = "stop", !.caller = "finally"]
  /\ UNCHANGED <<db_conn, pipeVars, linkVars, timeVars>>

\* IoTManager.stop, lines 872-874: SerialManager.stop() is called
IoTManager_stop ==
  /\ manager.pc = "stop"
  /\ manager' = [manager EXCEPT !.pc = "serial_stop"]
  /\ main' = "stop"
  /\ UNCHANGED <<db_conn, pipeVars, timeVars, serial_conn, open_handles, next_handle,
                 running, monitoring, reader, sender, link_log>>

\* an exception leaves IoTManager.stop: out of the finally block it ends
\* main(); out of signal_handler it reaches the frame the signal interrupted,
\* where inside the try block the finally block runs and calls stop()
Raised(m, what) ==
  [m EXCEPT !.raised = what,
            !.pc = IF m.caller = "handler_in_try" THEN "stop" ELSE "crashed",
            !.caller = IF m.caller = "handler_in_try" THEN "finally" ELSE @]

\* DatabaseManager.add_event, lines 297-306: conn.cursor() is outside the
\* try and raises on a closed connection; a failed INSERT is caught and
\* logged
add_event_system(m, failed) ==
  IF db_conn = "closed" THEN Raised(m, "store")
  ELSE [m EXCEPT !.pc = "db_close",
                 !.events = IF failed THEN @
                            ELSE Append(@, EventRow("SYSTEM", "INFO", "System stopped",
                                                    <<>>, <<>>))]

\* IoTManager.stop, line 875: SerialManager.stop() has returned, or has raised
IoTManager_stop_event ==
  /\ manager.pc = "serial_stop"
  /\ main \in {"stopped", "stop_raised"}
  /\ \E failed \in BOOLEAN :
       manager' = IF main = "stop_raised" THEN Raised(manager, "transport")
                  ELSE add_event_system(manager, failed)
  /\ UNCHANGED <<db_conn, pipeVars, linkVars, timeVars>>

\* IoTManager.stop, line 876, and DatabaseManager.close, lines 379-381: conn
\* is never set to None, and closing a closed connection does nothing
IoTManager_stop_close ==
  /\ manager.pc = "db_close"
  /\ db_conn' = "closed"
  /\ manager' = [manager EXCEPT !.stops = @ + 1,
                                !.pc = IF manager.caller = "finally" THEN "ended"
                                       ELSE "sys_exit"]
  /\ UNCHANGED <<pipeVars, linkVars, timeVars>>

\* signal_handler, line 631: sys.exit(0) raises SystemExit in the frame the
\* signal interrupted; inside the try block the finally block of main(),
\* lines 925-926, calls stop() again
sys_exit ==
  /\ manager.pc = "sys_exit"
  /\ manager' = IF manager.caller = "handler_in_try"
                THEN [manager EXCEPT !.pc = "stop", !.caller = "finally"]
                ELSE [manager EXCEPT !.pc = "ended"]
  /\ UNCHANGED <<db_conn, pipeVars, linkVars, timeVars>>

\* SerialManager.stop() runs inside IoTManager.stop only
InSerialStop == manager.pc = "serial_stop"

NextShutdown ==
  \/ main_try \/ signal_handler \/ main_finally
  \/ IoTManager_stop \/ IoTManager_stop_event \/ IoTManager_stop_close \/ sys_exit
  \/ InSerialStop /\ stop_flag
  \/ InSerialStop /\ stop_join
  \/ InSerialStop /\ stop_check
  \/ InSerialStop /\ stop_close
  \/ read_loop_while \/ read_loop_poll \/ read_loop_heartbeat \/ read_loop_sleep
  \/ read_loop_except \/ read_loop_except_sleep
  \/ reconnect_for \/ reconnect_close \/ reconnect_none \/ reconnect_sleep
  \/ reconnect_connect \/ reconnect_backoff

SpecShutdown == InitShutdown /\ [][NextShutdown]_vars

-----------------------------------------------------------------------------
(* Properties of the data path (specification Spec)                         *)

\* a text without '<', '>' and '|'
DelimiterFree(text) == \A i \in 1..Len(text) : text[i] \notin {"<", ">", "|"}

\* the whole stream has been read
AllRead == Len(script) > 0 /\ consumed = Len(script)

\* a command NAME with two arguments a, b free of the delimiters has been
\* written and everything written has been read back
RoundTripDone ==
  /\ ~cmd.pending /\ Len(cmd.command) > 0 /\ Len(cmd.args) = 2
  /\ DelimiterFree(cmd.command) /\ DelimiterFree(cmd.args[1]) /\ DelimiterFree(cmd.args[2])
  /\ AllRead

\* C5 as stated: the command <NAME|a|b>, written by send_command and read
\* back through the frame loop and process_message, is a message of type
\* NAME with payload a|b.
CommandRoundTripPayloadIsArgs ==
  RoundTripDone =>
    /\ Len(message_queue) = 1
    /\ message_queue[1].type = cmd.command
    /\ message_queue[1].content = cmd.args[1] \o <<"|">> \o cmd.args[2]

\* C5 amended: the command <NAME|a|b>, written by send_command and read back
\* through the frame loop and process_message, is exactly one message, of
\* type NAME, whose second field (the tag) is a and whose payload is b.
CommandRoundTrip ==
  RoundTripDone =>
    /\ frames = << cmd.command \o <<"|">> \o cmd.args[1] \o <<"|">> \o cmd.args[2] >>
    /\ Len(message_queue) = 1
    /\ message_queue[1].type = cmd.command
    /\ message_queue[1].timestamp = cmd.args[1]
    /\ message_queue[1].content = cmd.args[2]
    /\ buffer = <<>>

CommandRoundTripWitness ==
  /\ RoundTripDone
  /\ cmd.args[1] # cmd.args[2] /\ Len(cmd.args[1]) > 0
  /\ Len(message_queue) = 1 /\ message_queue[1].content = cmd.args[2]

\* the stream is one well-formed frame: '<', bytes other than '<' and '>', '>'
WellFormedScript ==
  /\ Len(script) >= 2 /\ script[1] = 60 /\ script[Len(script)] = 62
  /\ \A i \in 2..(Len(script) - 1) : script[i] \notin {60, 62}

FirstOpen(text) ==
  CHOOSE i \in 1..Len(text) : text[i] = "<" /\ \A k \in 1..(i - 1) : text[k] # "<"

\* the place of the last '>' of a text
LastClose(text) ==
  CHOOSE j \in 1..Len(text) : text[j] = ">" /\ \A k \in (j + 1)..Len(text) : text[k] # ">"

\* noise holding a '>' and no '<', then one well-formed frame, then at most
\* bytes that are no delimiters
NoiseThenFrame(text) ==
  /\ HasChar(text, "<") /\ HasChar(text, ">")
  /\ LET i == FirstOpen(text)
         j == LastClose(text)
     IN /\ i < j
        /\ \E k \in 1..(i - 1) : text[k] = ">"
        /\ \A k \in (i + 1)..(j - 1) : text[k] \notin {"<", ">"}
        /\ \A k \in (j + 1)..Len(text) : text[k] # "<"

\* what the read that moves consumed has received
Received == Decode(SubSeq(script, consumed + 1, consumed'))

\* C7: when, after a read, the buffer holds an unmatched '>' among bytes
\* other than '<', followed by one well-formed frame, the frame loop hands
\* exactly that frame to process_message, raises nothing, and drops the
\* noise with the frame (only what followed the frame stays buffered).
NoiseTolerance ==
  [][ (consumed' # consumed /\ NoiseThenFrame(buffer \o Received)) =>
        LET text == buffer \o Received
            i    == FirstOpen(text)
            j    == LastClose(text)
        IN /\ frames' = Append(frames, SubSeq(text, i + 1, j - 1))
           /\ buffer' = SubSeq(text, j + 1, Len(text))
           /\ readErrors' = readErrors ]_vars

NoiseToleranceWitness ==
  /\ AllRead /\ ~chunked /\ NoiseThenFrame(Decode(script))
  /\ Len(frames) = 1
  /\ frames[1] = SubSeq(Decode(script), FirstOpen(Decode(script)) + 1, LastClose(Decode(script)) - 1)
  /\ Len(frames[1]) > 0
  /\ buffer = <<>>

\* the rows of one table, with their frame numbers
Rows(tbl) == SelectSeq(store, LAMBDA e : e.row.tbl = tbl)

\* the alerts rows a frame caused
AlertsOf(frameNo) ==
  LET es == SelectSeq(store, LAMBDA e : e.row.tbl = "alerts" /\ e.frame = frameNo)
  IN [i \in 1..Len(es) |-> es[i].row]

\* the readings whose first value slot holds a number
NumericReadings ==
  SelectSeq(store, LAMBDA e : e.row.tbl = "sensor_data" /\ Len(e.row.values[1]) = 1)

AlertRow(sensor_id, alert_type, value, threshold) ==
  [tbl |-> "alerts", sensor_id |-> sensor_id, alert_type |-> alert_type,
   value |-> value, threshold |-> threshold]

AlertsEnabled == getboolean(alerts_config.enabled)

\* a configured bound as a number
Bound(text) == ParseFloat(text).val

\* what the stated threshold semantics give for a value under a rule
StatedAlerts(rule, sensor_id, v) ==
  IF rule = "temperature" THEN
    IF v < Bound(alerts_config.temp_min)
    THEN << AlertRow(sensor_id, "LOW_TEMPERATURE", v, Bound(alerts_config.temp_min)) >>
    ELSE IF v > Bound(alerts_config.temp_max)
    THEN << AlertRow(sensor_id, "HIGH_TEMPERATURE", v, Bound(alerts_config.temp_max)) >>
    ELSE <<>>
  ELSE IF rule = "distance" THEN
    IF v < Bound(alerts_config.distance_min)
    THEN << AlertRow(sensor_id, "PROXIMITY_ALERT", v, Bound(alerts_config.distance_min)) >>
    ELSE IF v > Bound(alerts_config.distance_max)
    THEN << AlertRow(sensor_id, "DISTANCE_EXCEEDED", v, Bound(alerts_config.distance_max)) >>
    ELSE <<>>
  ELSE IF rule = "motion" THEN
    IF v >= Bound(alerts_config.motion_threshold)
    THEN << AlertRow(sensor_id, "MOTION_DETECTED", v, Bound(alerts_config.motion_threshold)) >>
    ELSE <<>>
  ELSE <<>>

AlertTypes(rows) == { rows[i].alert_type : i \in 1..Len(rows) }

StatedRule(sensor_id) ==
  IF sensor_id \in { <<"D", "H", "T", "2", "2">>, <<"t", "e", "m", "p", "1">>, <<"B", "M", "P", "2", "8", "0">>, <<"p", "i", "r", "-", "t", "e", "m", "p">> }
  THEN "temperature"
  ELSE IF sensor_id \in { <<"H", "C", "-", "S", "R", "0", "4">>, <<"U", "L", "T", "R", "A", "S", "O", "N", "I", "C">>, <<"P", "I", "R", "-", "H", "C", "-", "S", "R", "0", "4">> }
  THEN "distance"
  ELSE IF sensor_id = <<"P", "I", "R", "1">> THEN "motion"
  ELSE "none"

\* C9: a sensor id is classified by case-insensitive substring, temperature
\* ('temp', 'dht', 'bmp') before distance ('hc-sr04', 'ultrasonic') before
\* motion ('pir'): every reading is evaluated under the first rule its id
\* matches and under no other, and an id matching none gets no alert.
ClassificationPriority ==
  AlertsEnabled =>
    \A n \in 1..Len(NumericReadings) :
      LET e  == NumericReadings[n]
          id == e.row.sensor_id
      IN /\ id \in SensorIds
         /\ AlertsOf(e.frame) = StatedAlerts(StatedRule(id), id, e.row.values[1][1])
         /\ StatedRule(id) = "none" => AlertsOf(e.frame) = <<>>

\* an id matching the temperature and the motion rule is past the motion
\* threshold and within the temperature bounds: no alert
ClassificationPriorityWitness ==
  /\ AlertsEnabled
  /\ \E n \in 1..Len(NumericReadings) :
       LET e == NumericReadings[n]
       IN /\ e.row.sensor_id = <<"p", "i", "r", "-", "t", "e", "m", "p">>
          /\ e.row.values[1][1] >= Bound(alerts_config.motion_threshold)
          /\ e.row.values[1][1] <= Bound(alerts_config.temp_max)
          /\ e.row.values[1][1] >= Bound(alerts_config.temp_min)
          /\ AlertsOf(e.frame) = <<>>

\* every sensor_data row
Readings == Rows("sensor_data")

\* the primary value of a reading breaches the rule of its sensor
Breaches(reading) ==
  /\ Len(reading.values[1]) = 1
  /\ Len(StatedAlerts(RuleOf(reading.sensor_id), reading.sensor_id, reading.values[1][1])) = 1

\* C10 as stated: every recorded reading has exactly one alert if its
\* primary value breaches the rule of its sensor and none otherwise, whatever
\* was read before; with alerts disabled no alert is ever recorded.
AlertCountPerReading ==
  /\ \A n \in 1..Len(Readings) :
       Len(AlertsOf(Readings[n].frame)) =
         (IF AlertsEnabled /\ Breaches(Readings[n].row) THEN 1 ELSE 0)
  /\ ~AlertsEnabled => Len(Rows("alerts")) = 0

\* C10 for the readings that have a primary value: one alert per breach, k
\* breaching readings give k alerts, none when disabled
AlertCountPerNumericReading ==
  /\ \A n \in 1..Len(NumericReadings) :
       Len(AlertsOf(NumericReadings[n].frame)) =
         (IF AlertsEnabled /\ Breaches(NumericReadings[n].row) THEN 1 ELSE 0)
  /\ ~AlertsEnabled => Len(Rows("alerts")) = 0

\* the fields of the n-th frame handed to process_message
FrameParts(n) == Split(frames[n], "|")

\* the n-th frame is a message of type DATA
IsDataFrame(n) ==
  Len(FrameParts(n)) >= 3 /\ FrameParts(n)[1] = <<"D", "A", "T", "A">>

\* the comma-separated fields of the payload of the n-th frame
PayloadFields(n) == Split(Join(SubSeq(FrameParts(n), 3, Len(FrameParts(n))), "|"), ",")

\* the n-th frame is a DATA message with a sensor id and a field after it
IsReadingFrame(n) == IsDataFrame(n) /\ Len(PayloadFields(n)) >= 2

\* the numbers among the fields after the sensor id, in order
NumbersOf(n) ==
  LET nums == SelectSeq(Tail(PayloadFields(n)), LAMBDA f : ParseFloat(f).ok)
  IN [i \in 1..Len(nums) |-> ParseFloat(nums[i]).val]

\* the store rows and the logged errors a frame caused
RowsOf(n) == SelectSeq(store, LAMBDA e : e.frame = n)
ErrorsOf(n) == SelectSeq(error_log, LAMBDA e : e.frame = n)

\* the store write of the reading of the n-th frame fails
FailedWrite(n) == IsReadingFrame(n) /\ n \in db_fault

\* the reading of the n-th frame has a primary value that breaches its rule
BreachingFrame(n) ==
  /\ IsReadingFrame(n) /\ AlertsEnabled /\ Len(NumbersOf(n)) > 0
  /\ Len(StatedAlerts(RuleOf(PayloadFields(n)[1]), PayloadFields(n)[1], NumbersOf(n)[1])) = 1

PersistencePrecedesEvaluation ==
  \A i \in 1..Len(store) :
    /\ store[i].row.tbl = "alerts" =>
         /\ store[i].frame \notin db_fault
         /\ \E j \in 1..(i - 1) :
              /\ store[j].frame = store[i].frame
              /\ store[j].row.tbl = "sensor_data"
              /\ store[j].row.sensor_id = store[i].row.sensor_id
    /\ store[i].row.tbl = "sensor_data" =>
         /\ store[i].frame \in 1..Len(frames)
         /\ IsDataFrame(store[i].frame)
         /\ store[i].frame \notin db_fault

\* an alert right after the reading it belongs to, in a stream that also
\* had a reading whose insert failed
PersistencePrecedesEvaluationWitness ==
  /\ \E n \in 1..Len(frames) : FailedWrite(n)
  /\ \E i \in 2..Len(store) :
       /\ store[i].row.tbl = "alerts"
       /\ store[i - 1].row.tbl = "sensor_data"
       /\ store[i - 1].frame = store[i].frame

\* the places of the delimiters of a text, in order
DelimiterPlaces(text) ==
  LET at == { i \in 1..Len(text) : text[i] \in {"<", ">"} }
  IN [k \in 1..Cardinality(at) |->
        CHOOSE i \in at : Cardinality({ j \in at : j < i }) = k - 1]

\* a stream of frames: its delimiters are '<' and '>' in turn
Orderly(text) ==
  \A k \in 1..Len(DelimiterPlaces(text)) :
    text[DelimiterPlaces(text)[k]] = (IF k % 2 = 1 THEN "<" ELSE ">")

\* the complete frames of an orderly text, in stream order
StatedFrames(text) ==
  [k \in 1..(Len(DelimiterPlaces(text)) \div 2) |->
     SubSeq(text, DelimiterPlaces(text)[2 * k - 1] + 1, DelimiterPlaces(text)[2 * k] - 1)]

\* what has been read so far
TextRead == Decode(SubSeq(script, 1, consumed))

\* C13: the frames of a stream are processed in stream order, each complete
\* frame once and none skipped, whatever the reads were; the store effects
\* of an earlier frame all lie before those of a later frame, a reading
\* first and its alert right after it; and the store only grows at its end.
TotalOrderPerTransport ==
  /\ [](Orderly(Decode(script)) => frames = StatedFrames(TextRead))
  /\ [](\A i \in 1..Len(store) :
          /\ store[i].frame \in 1..Len(frames)
          /\ \A j \in 1..(i - 1) : store[j].frame <= store[i].frame
          /\ store[i].row.tbl = "sensor_data" =>
               /\ IsReadingFrame(store[i].frame)
               /\ store[i].row.raw_data = Join(SubSeq(FrameParts(store[i].frame), 3, Len(FrameParts(store[i].frame))), "|")
               /\ \A j \in 1..(i - 1) : store[j].frame < store[i].frame
          /\ store[i].row.tbl = "alerts" =>
               /\ i > 1
               /\ store[i - 1].row.tbl = "sensor_data"
               /\ store[i - 1].frame = store[i].frame)
  /\ [][ /\ Len(store') >= Len(store) /\ SubSeq(store', 1, Len(store)) = store
         /\ Len(frames') >= Len(frames) /\ SubSeq(frames', 1, Len(frames)) = frames ]_vars

\* three frames delivered in more than one read, the first and the third
\* with a reading and its alert
TotalOrderPerTransportWitness ==
  /\ AllRead /\ chunked /\ Orderly(Decode(script))
  /\ Len(frames) = 3
  /\ Len(RowsOf(1)) = 2 /\ Len(RowsOf(2)) = 1 /\ Len(RowsOf(3)) = 2
  /\ Len(store) = 5 /\ store[5].row.tbl = "alerts" /\ store[5].frame = 3

\* the type and the payload of the n-th frame (of three fields or more)
TypeOf(n) == FrameParts(n)[1]
PayloadOf(n) == Join(SubSeq(FrameParts(n), 3, Len(FrameParts(n))), "|")

\* the entries of an INVENTORY payload count|id1:type1,...
InventoryEntries(n) ==
  IF Len(Split(PayloadOf(n), "|")) > 1 THEN Split(Split(PayloadOf(n), "|")[2], ",") ELSE <<>>

KnownTypes ==
  { <<"D", "A", "T", "A">>, <<"I", "N", "V", "E", "N", "T", "O", "R", "Y">>,
    <<"H", "E", "A", "R", "T", "B", "E", "A", "T">>, <<"S", "T", "A", "T", "U", "S">>,
    <<"B", "O", "O", "T">>, <<"D", "E", "T", "E", "C", "T">> }

\* the n-th frame fails to parse, or is of an unknown type
Malformed(n) ==
  \/ Len(FrameParts(n)) < 3
  \/ /\ Len(FrameParts(n)) >= 3
     /\ \/ TypeOf(n) \notin KnownTypes
        \/ IsDataFrame(n) /\ Len(PayloadFields(n)) < 2
        \/ /\ TypeOf(n) = <<"I", "N", "V", "E", "N", "T", "O", "R", "Y">>
           /\ \/ ~ParseInt(Split(PayloadOf(n), "|")[1]).ok
              \/ \E k \in 1..Len(InventoryEntries(n)) :
                   /\ HasChar(InventoryEntries(n)[k], ":")
                   /\ Len(Split(InventoryEntries(n)[k], ":")) # 2

BadInventoryEntry(n) ==
  /\ Len(FrameParts(n)) >= 3
  /\ TypeOf(n) = <<"I", "N", "V", "E", "N", "T", "O", "R", "Y">>
  /\ ParseInt(Split(PayloadOf(n), "|")[1]).ok
  /\ \E k \in 1..Len(InventoryEntries(n)) :
       /\ HasChar(InventoryEntries(n)[k], ":")
       /\ Len(Split(InventoryEntries(n)[k], ":")) # 2

\* C14 without the INVENTORY frames whose bad entry follows good ones: every
\* other malformed frame leaves no row, and a bad entry leaves no event
MalformedDroppedButInventoryPrefix ==
  \A n \in 1..Len(frames) :
    Malformed(n) =>
      IF BadInventoryEntry(n)
      THEN \A i \in 1..Len(RowsOf(n)) : RowsOf(n)[i].row.tbl = "sensors"
      ELSE RowsOf(n) = <<>>

\* the fields after the sensor id that are no numbers, in order
UnitsOf(n) == SelectSeq(Tail(PayloadFields(n)), LAMBDA f : ~ParseFloat(f).ok)

\* the first three of a sequence, then nulls, in three slots
ThreeSlots(xs) == [i \in 1..3 |-> IF i <= Len(xs) THEN <<xs[i]>> ELSE <<>>]

\* the frame DATA|t|DHT22,23.5,45.2,C,%
ExampleReadingFrame ==
  <<"D", "A", "T", "A", "|", "t", "|", "D", "H", "T", "2", "2", ",", "2", "3", ".", "5", ",",
    "4", "5", ".", "2", ",", "C", ",", "%">>

\* C16: the reading stored for a payload id,f1,...,fn has the id, the
\* numbers among f1..fn in their order as values and the other fields in
\* their order as units, each cut to three and padded with nulls to three
\* slots; DHT22,23.5,45.2,C,% stores [23.5, 45.2, null], [C, %, null] and,
\* under the default thresholds, no alert.
FixedWidthClassification ==
  \A i \in 1..Len(store) :
    store[i].row.tbl = "sensor_data" =>
      /\ IsReadingFrame(store[i].frame)
      /\ store[i].row.sensor_id = PayloadFields(store[i].frame)[1]
      /\ store[i].row.values = ThreeSlots(NumbersOf(store[i].frame))
      /\ store[i].row.units = ThreeSlots(UnitsOf(store[i].frame))
      /\ Len(NumbersOf(store[i].frame)) + Len(UnitsOf(store[i].frame)) = Len(PayloadFields(store[i].frame)) - 1
      /\ (frames[store[i].frame] = ExampleReadingFrame /\ alerts_config = DefaultAlerts) =>
           /\ store[i].row.values = << <<23 * Scale + Scale \div 2>>, <<45 * Scale + Scale \div 5>>, <<>> >>
           /\ store[i].row.units = << <<"C">>, <<"%">>, <<>> >>
           /\ AlertsOf(store[i].frame) = <<>>

\* a reading of four numbers and one unit is stored with its first three
\* numbers, and one of four units with its first three units
FixedWidthClassificationWitness ==
  \E i \in 1..Len(store) :
    /\ store[i].row.tbl = "sensor_data"
    /\ \/ Len(NumbersOf(store[i].frame)) = 4 /\ Len(store[i].row.values[3]) = 1
       \/ Len(UnitsOf(store[i].frame)) = 4 /\ Len(store[i].row.units[3]) = 1

\* the n-th frame is INVENTORY|tag|count|id1:type1,...,idk:typek with an
\* integer count and k >= 1 entries id:type
WellFormedInventory(n) ==
  /\ Len(FrameParts(n)) >= 3
  /\ TypeOf(n) = <<"I", "N", "V", "E", "N", "T", "O", "R", "Y">>
  /\ ParseInt(Split(PayloadOf(n), "|")[1]).ok
  /\ Len(InventoryEntries(n)) >= 1
  /\ \A k \in 1..Len(InventoryEntries(n)) :
       /\ HasChar(InventoryEntries(n)[k], ":")
       /\ Len(Split(InventoryEntries(n)[k], ":")) = 2

\* the id and the type of the k-th entry of the n-th frame
EntryId(n, k) == Split(InventoryEntries(n)[k], ":")[1]
EntryType(n, k) == Split(InventoryEntries(n)[k], ":")[2]

\* no later entry of the frames processed so far names the id of entry k of
\* frame n
LastEntryOfId(n, k) ==
  /\ \A k2 \in (k + 1)..Len(InventoryEntries(n)) : EntryId(n, k2) # EntryId(n, k)
  /\ \A n2 \in (n + 1)..Len(frames) :
       TypeOf(n2) # <<"I", "N", "V", "E", "N", "T", "O", "R", "Y">>
       \/ (WellFormedInventory(n2)
           /\ \A k2 \in 1..Len(InventoryEntries(n2)) : EntryId(n2, k2) # EntryId(n, k))

\* C17: a well-formed INVENTORY frame upserts its entries in order, leaving
\* one SensorRecord per distinct id (the record of an id holds the type of
\* the last entry that named it, over any sequence of reports), and then
\* records exactly one INFO event 'Updated: <count> sensors' with the
\* declared count.
InventoryHandling ==
  \A n \in 1..Len(frames) :
    WellFormedInventory(n) =>
      /\ Len(RowsOf(n)) = Len(InventoryEntries(n)) + 1
      /\ \A k \in 1..Len(InventoryEntries(n)) :
           /\ RowsOf(n)[k].row = [tbl |-> "sensors", sensor_id |-> EntryId(n, k),
                                  sensor_type |-> EntryType(n, k), pin |-> 0]
           /\ EntryId(n, k) \in DOMAIN sensors
           /\ EntryId(n, k) \in DOMAIN sensor_inventory
           /\ LastEntryOfId(n, k) =>
                /\ sensors[EntryId(n, k)].sensor_type = EntryType(n, k)
                /\ sensor_inventory[EntryId(n, k)] = EntryType(n, k)
      /\ Cardinality(DOMAIN sensors) >= Cardinality({ EntryId(n, k) : k \in 1..Len(InventoryEntries(n)) })
      /\ LET event == RowsOf(n)[Len(InventoryEntries(n)) + 1].row
         IN /\ event.tbl = "events"
            /\ event.event_type = "INVENTORY"
            /\ event.severity = "INFO"
            /\ event.message = "Updated: {count} sensors"
            /\ event.arg = << ParseInt(Split(PayloadOf(n), "|")[1]).val >>

\* two reports, the first naming one id twice and declaring three sensors,
\* leave one record, of the type reported last
InventoryHandlingWitness ==
  /\ Len(frames) = 2 /\ WellFormedInventory(1) /\ WellFormedInventory(2)
  /\ Len(InventoryEntries(1)) = 2 /\ EntryId(1, 1) = EntryId(1, 2) /\ EntryId(2, 1) = EntryId(1, 1)
  /\ DOMAIN sensors = { EntryId(1, 1) }
  /\ sensors[EntryId(1, 1)].sensor_type = EntryType(2, 1)
  /\ Len(store) = 5 /\ store[3].row.tbl = "events" /\ store[3].row.arg = <<3>>

\* the buffer holds an open delimiter with no close delimiter after it
IncompleteFrame(text) ==
  /\ HasChar(text, "<")
  /\ \A j \in (FirstOpen(text) + 1)..Len(text) : text[j] # ">"

\* C19: whenever the buffer holds an open delimiter with no close delimiter
\* after it, a stray '>' before it or not, the frame loop has raised no
\* error (and so the except clause of read_loop, with its reconnect(), was
\* not entered) and the bytes from the open delimiter on are kept.
IncompleteFrameWaits ==
  IncompleteFrame(buffer) => readErrors = 0

\* C20: every accepted DATA message sets last_heartbeat to the current time.
DataRefreshesHeartbeat ==
  (Len(frames) > 0 /\ IsReadingFrame(Len(frames)) /\ Len(frames) \notin db_fault) =>
    last_heartbeat = now

\* a message of type HEARTBEAT with at least three fields
IsHeartbeatMessage(message) ==
  /\ Len(Split(message, "|")) >= 3
  /\ Split(message, "|")[1] = <<"H", "E", "A", "R", "T", "B", "E", "A", "T">>

\* the first sub-field of the payload of the n-th frame
StatusToken(n) == Split(PayloadOf(n), "|")[1]

\* C21: every HEARTBEAT message with at least three fields sets
\* last_heartbeat to the current time, whatever its status token; it records
\* exactly one WARNING event (carrying the token) when the first payload
\* sub-field is not 'OK' and nothing when it is 'OK'; and last_heartbeat is
\* written by no step but a read of the reader loop that processed such a
\* message.
HeartbeatDispatch ==
  /\ [](\A n \in 1..Len(frames) :
          IsHeartbeatMessage(frames[n]) =>
            /\ last_heartbeat = now
            /\ ErrorsOf(n) = <<>>
            /\ StatusToken(n) = <<"O", "K">> => RowsOf(n) = <<>>
            /\ StatusToken(n) # <<"O", "K">> =>
                 RowsOf(n) = << [row |-> EventRow("HEARTBEAT", "WARNING", "Status: {status}",
                                                  StatusToken(n), <<>>),
                                 frame |-> n] >>)
  /\ [][ last_heartbeat' # last_heartbeat =>
           /\ consumed' > consumed
           /\ \E n \in (Len(frames) + 1)..Len(frames') : IsHeartbeatMessage(frames'[n])
       ]_vars

\* three heartbeats read: 'OK|12' left no row, 'ERR|12' and the empty status
\* one warning each
HeartbeatDispatchWitness ==
  /\ Len(frames) = 3
  /\ \A n \in 1..3 : IsHeartbeatMessage(frames[n])
  /\ StatusToken(1) = <<"O", "K">> /\ RowsOf(1) = <<>>
  /\ StatusToken(2) = <<"E", "R", "R">> /\ Len(RowsOf(2)) = 1
  /\ StatusToken(3) = <<>> /\ Len(RowsOf(3)) = 1
  /\ last_heartbeat = now

\* the sensor id of the reading of the n-th frame
SensorIdOf(n) == PayloadFields(n)[1]

\* the reading of the n-th frame has been recorded
RecordedReading(n) == IsReadingFrame(n) /\ n \notin db_fault

\* C22: once the reading of a DATA message for sensor id S has been
\* recorded, the sensors table has a row keyed S, created if no INVENTORY
\* report named S before; and no step removes a row of sensors or moves its
\* last_seen back.
SensorUpsertedOnData ==
  /\ [](\A n \in 1..Len(frames) : RecordedReading(n) => SensorIdOf(n) \in DOMAIN sensors)
  /\ [][ \A id \in DOMAIN sensors :
           id \in DOMAIN sensors' /\ sensors'[id].last_seen >= sensors[id].last_seen ]_vars

\* what the stated semantics give for the reading of the n-th frame, evaluated
\* on its first numeric value
AlertsOnFirstNumber(n) ==
  IF AlertsEnabled
  THEN StatedAlerts(RuleOf(SensorIdOf(n)), SensorIdOf(n), NumbersOf(n)[1])
  ELSE <<>>

\* C26: the alerts of a recorded reading are those of its first numeric
\* value alone, whatever values follow; a reading with no numeric field at
\* all (unit tokens only) has no alert, for every sensor id and every
\* threshold configuration.
PrimaryValueOnly ==
  \A n \in 1..Len(frames) :
    RecordedReading(n) =>
      AlertsOf(n) = (IF Len(NumbersOf(n)) = 0 THEN <<>> ELSE AlertsOnFirstNumber(n))

\* C26 for the readings that have a numeric field
PrimaryValueOfNumericReading ==
  \A n \in 1..Len(frames) :
    (RecordedReading(n) /\ Len(NumbersOf(n)) > 0) => AlertsOf(n) = AlertsOnFirstNumber(n)

-----------------------------------------------------------------------------
(* Properties of the link supervision (specification SpecLink)              *)

\* C1: within one silence episode (since the last accepted heartbeat) at
\* most one 'Heartbeat timeout' warning is recorded and at most one
\* reconnect() is started by the timeout check.
HeartbeatTimeoutOncePerEpisode ==
  /\ link_log.timeouts <= 1
  /\ link_log.hb_reconnects <= 1

\* reconnect() has returned and the reader has not yet gone on
ReconnectReturned ==
  /\ link_log.rc_result \in {"ok", "failed"}
  /\ reader.pc \in {"sleep", "except_sleep"}

\* C2: a reconnect() whose every open failed has called connect() exactly
\* max_reconnect_attempts times, recorded one 'Reconnection failed' event and
\* left serial_conn None; one whose k-th open succeeded has called connect()
\* exactly k times (k <= max_reconnect_attempts), recorded the count k, and
\* serial_conn is the handle it opened.
ReconnectionBound ==
  ReconnectReturned =>
    /\ link_log.rc_result = "failed" =>
         /\ link_log.rc_opens = monitoring.max_reconnect_attempts
         /\ link_log.rc_failed_events = 1
         /\ serial_conn = 0
    /\ link_log.rc_result = "ok" =>
         /\ link_log.rc_opens \in 1..monitoring.max_reconnect_attempts
         /\ link_log.rc_reported = link_log.rc_opens
         /\ link_log.rc_failed_events = 0
         /\ serial_conn = link_log.rc_handle

\* C2 holds of every max_reconnect_attempts but 0
ReconnectionBoundPositive ==
  monitoring.max_reconnect_attempts >= 1 => ReconnectionBound

\* C3: once stop() has returned, no handle is open and the reader touches
\* the transport no more.
StopHaltsReader ==
  main = "stopped" => (open_handles = {} /\ ~link_log.late_ops)

\* C4: no transport operation of the reader falls into a write of
\* send_command, and the handle send_command writes to is the one it
\* checked, neither closed nor replaced by the reader in between.
TransportExclusive ==
  /\ ~link_log.overlap
  /\ ~link_log.stale

\* a step of the thread in send_command
SenderStep == sender' # sender \/ link_log'.sent # link_log.sent

\* C15: send_command never raises and never changes the link, the heartbeat
\* clock or the store; without a handle it returns False at once and writes
\* nothing; with one it begins at most one write, returns True only when
\* that write was on an open port to its end, and False when the handle was
\* gone or closed; it leaves nothing behind to retry.
SendCommandSingleShot ==
  /\ [](sender.pc \in {"idle", "write", "writing"})
  /\ [](sender.pc = "idle" => sender = SenderIdle)
  /\ [][ SenderStep =>
           /\ UNCHANGED <<serial_conn, open_handles, next_handle, running, reader, main,
                          now, last_heartbeat, store, message_queue, sensors, monitoring>>
           /\ (sender.pc = "idle" /\ serial_conn = 0) =>
                (sender' = SenderIdle /\ link_log'.sent = "false")
           /\ sender'.pc = "writing" =>
                (sender.pc = "write" /\ sender'.using = serial_conn /\ serial_conn \in open_handles)
           /\ sender.pc = "writing" => sender' = SenderIdle
           /\ (sender.pc = "write" /\ sender'.pc = "idle") =>
                (link_log'.sent = "false" /\ (serial_conn = 0 \/ serial_conn \notin open_handles))
           /\ (sender.pc = "writing" /\ link_log'.sent = "true") => sender.using \in open_handles
           /\ (sender.pc = "writing" /\ sender.using \notin open_handles) => link_log'.sent = "false"
       ]_vars

\* a command was refused because the reader had closed the handle after the
\* check, and the link is as the reader left it
SendCommandSingleShotWitness ==
  /\ sender = SenderIdle /\ link_log.sent = "false" /\ link_log.stale
  /\ serial_conn = 0

\* C18: when connect() fails in start(), serial_conn stays None and no port
\* is open, exactly one error event 'Connection failed' is recorded,
\* start() returns False, running stays False, the reader thread is not
\* started and no command is written.
FailedOpenAtStartup ==
  main = "failed" =>
    /\ serial_conn = 0 /\ open_handles = {}
    /\ link_log.start_events = << EventRow("SERIAL", "ERROR", "Connection failed: {e}", <<>>, <<>>) >>
    /\ ~running
    /\ reader = ReaderAt("off")
    /\ link_log.status_sent = "none" /\ link_log.sent = "none" /\ sender = SenderIdle

FailedOpenAtStartupWitness ==
  /\ main = "failed" /\ Len(link_log.start_events) = 1 /\ serial_conn = 0 /\ ~running

\* a write of send_command has raised on an open port, and the reader has
\* since gone through a whole iteration of its loop without calling reconnect()
WriteFailureIgnored ==
  link_log.write_failed = "polled" /\ reader.pc \in {"sleep", "except_sleep"}

\* C23: every transport failure is handled by the supervisor.  A failure the
\* reader meets (read, in_waiting) enters the except clause, which calls
\* reconnect() when auto_reconnect is on and else goes on polling after a
\* second; a write of send_command that raises is followed by a reconnect()
\* when auto_reconnect is on (the reader does not finish an iteration
\* without one); and the reader loop does not end while running is true.
TransportFailureSupervised ==
  /\ [](reader.pc = "done" => ~running)
  /\ [][ (reader.pc = "except" /\ reader' # reader) =>
           reader'.pc = (IF monitoring.auto_reconnect THEN "rc_for" ELSE "except_sleep") ]_vars
  /\ [][ (reader.pc = "except_sleep" /\ reader' # reader) => reader'.pc = "while" ]_vars
  /\ []((monitoring.auto_reconnect /\ running) => ~WriteFailureIgnored)

\* reconnect() has returned False: its attempts are used up
Exhausted == ReconnectReturned /\ link_log.rc_result = "failed"

\* an open of reconnect() succeeds
OpenSucceeds ==
  (reader.pc = "rc_connect" /\ reader'.pc # "rc_connect") => serial_conn' \in open_handles'

\* C24: while running is true and auto_reconnect is on, a reconnect() whose
\* attempts are used up leaves the reader in its loop with no handle; and if
\* from some time on every open succeeds, then after every such reconnect()
\* the link comes to hold an open handle.
RetryNeverEnds ==
  /\ []((monitoring.auto_reconnect /\ running /\ Exhausted) =>
         (serial_conn = 0 /\ reader.pc # "done"))
  /\ (<>[][OpenSucceeds]_vars) =>
       ((monitoring.auto_reconnect /\ running /\ Exhausted) ~> (serial_conn \in open_handles))

\* C24 holds of every max_reconnect_attempts but 0
RetryNeverEndsPositive ==
  /\ []((monitoring.max_reconnect_attempts >= 1 /\ monitoring.auto_reconnect /\ running /\ Exhausted) =>
         (serial_conn = 0 /\ reader.pc # "done"))
  /\ (<>[][OpenSucceeds]_vars) =>
       ((monitoring.auto_reconnect /\ running /\ Exhausted) ~> (serial_conn \in open_handles))

\* the link holds an open handle and the heartbeat is not overdue
Connected == serial_conn \in open_handles /\ ~HeartbeatTimedOut

\* the reader closes, in a reconnect() the heartbeat check has called, the
\* handle an earlier reconnect() has opened
ClosesReopened ==
  /\ reader.pc = "rc_close" /\ reader'.pc = "rc_none"
  /\ reader.from = "heartbeat"
  /\ link_log.rc_time # NoTime

\* C25: the reader closes a handle that reconnect() has opened, without a
\* transport error, only when heartbeat_timeout has passed again since that
\* reconnect(); and after a heartbeat timeout, if from some time on every
\* open succeeds and a heartbeat arrives whenever the link stays open, the
\* link comes to be open with a heartbeat that is not overdue.
StableRecovery ==
  /\ [][ ClosesReopened => now - link_log.rc_time > monitoring.heartbeat_timeout ]_vars
  /\ ((<>[][OpenSucceeds]_vars)
      /\ []<>(serial_conn \notin open_handles \/ last_heartbeat = now)) =>
       ((link_log.timeouts > 0) ~> Connected)

-----------------------------------------------------------------------------
(* Properties of the shutdown (specification SpecShutdown)                  *)

\* C27: shutdown is idempotent: however often IoTManager.stop() is invoked in
\* one process lifetime (signal_handler calls it and then sys.exit, after
\* which the finally block of main() calls it again), no invocation raises,
\* neither on the closed store nor on the closed transport.
ShutdownIdempotent == manager.raised = "none"

\* the part of C27 about the transport: SerialManager.stop() does not raise
\* in the second invocation, and the handle it closed stays closed
TransportCloseIdempotent ==
  /\ manager.raised # "transport"
  /\ manager.stops >= 1 /\ manager.pc = "db_close" /\ serial_conn # 0
       => serial_conn \notin open_handles

\* the second invocation has gone through SerialManager.stop()
SecondTransportClose ==
  /\ manager.stops = 1 /\ manager.caller = "finally"
  /\ manager.pc = "serial_stop" /\ main = "stopped"

\* the first invocation, and an only one, returns
FirstStopReturns == manager.stops = 0 => manager.raised = "none"

\* a process with one invocation of stop() has ended
OneStopEnded == manager.pc = "ended" /\ manager.stops = 1

====
